---- MODULE Spec2Model ----
(***************************************************************************)
(* Model of the CashBarber appointment automation:                         *)
(*   src/api.py                 the Flask handler create_appointment_api   *)
(*   src/schedule_cashbarber.py login, navigation, create_appointment,     *)
(*                              capture_popup_content and the CLI main     *)
(* The browser (the Selenium driver and the third-party page) is the       *)
(* environment: every driver call may succeed or raise, and what the page  *)
(* shows is chosen from small explicit sets.                               *)
(*                                                                         *)
(* Texts are sequences of one-character strings, so that lower(), strip(), *)
(* substring tests, strptime and strftime are computed, not assumed.       *)
(***************************************************************************)
EXTENDS Integers, Sequences, FiniteSets, TLC

\* Longest services list of a request.
MaxServices == 2

---------------------------------------------------------------------------
(* Text helpers: str.lower, str.strip, the `in` substring test.            *)

\* str.lower() on one character (the letters the sample texts use).
LowerCh(c) ==
    CASE c = "A" -> "a" [] c = "C" -> "c" [] c = "D" -> "d" [] c = "E" -> "e"
      [] c = "F" -> "f" [] c = "H" -> "h" [] c = "I" -> "i" [] c = "L" -> "l"
      [] c = "N" -> "n" [] c = "O" -> "o" [] c = "R" -> "r" [] c = "S" -> "s"
      [] c = "V" -> "v" [] c = "Á" -> "á" [] c = "Ã" -> "ã"
      [] OTHER -> c

\* str.lower()
Lower(s) == [i \in 1..Len(s) |-> LowerCh(s[i])]

\* Python's `k in s` for strings.
Contains(s, k) ==
    \E i \in 1..(Len(s) - Len(k) + 1) : SubSeq(s, i, i + Len(k) - 1) = k

Whitespace == {" ", "\n", "\t"}

\* str.strip(): drops leading and trailing whitespace.
Strip(s) ==
    LET keep == {i \in 1..Len(s) : s[i] \notin Whitespace}
    IN  IF keep = {} THEN <<>>
        ELSE LET lo == CHOOSE i \in keep : \A j \in keep : i <= j
                 hi == CHOOSE i \in keep : \A j \in keep : j <= i
             IN  SubSeq(s, lo, hi)

\* str.replace(c, "") for a one-character c.
RemoveCh(s, c) == SelectSeq(s, LAMBDA x : x # c)

---------------------------------------------------------------------------
(* datetime.strptime / strftime as create_appointment uses them.           *)

Digits == {"0", "1", "2", "3", "4", "5", "6", "7", "8", "9"}

DigitVal(c) ==
    CASE c = "0" -> 0 [] c = "1" -> 1 [] c = "2" -> 2 [] c = "3" -> 3
      [] c = "4" -> 4 [] c = "5" -> 5 [] c = "6" -> 6 [] c = "7" -> 7
      [] c = "8" -> 8 [] c = "9" -> 9

DigitCh(n) ==
    CASE n = 0 -> "0" [] n = 1 -> "1" [] n = 2 -> "2" [] n = 3 -> "3"
      [] n = 4 -> "4" [] n = 5 -> "5" [] n = 6 -> "6" [] n = 7 -> "7"
      [] n = 8 -> "8" [] n = 9 -> "9"

\* s[p..p+n-1] exists and is all digits.
DigitsAt(s, p, n) == p + n - 1 <= Len(s) /\ \A i \in p..(p + n - 1) : s[i] \in Digits

\* The number written by the n digits at p.
RECURSIVE NumAt(_, _, _)
NumAt(s, p, n) ==
    IF n = 0 THEN 0 ELSE 10 * NumAt(s, p, n - 1) + DigitVal(s[p + n - 1])

\* %d is the regex 3[0-1]|[1-2]\d|0[1-9]|[1-9]| [1-9]: the lengths it can
\* take at p, in the regex's order of preference.
DayLens(s, p) ==
    (IF DigitsAt(s, p, 2) /\ NumAt(s, p, 2) \in 1..31 THEN <<2>> ELSE <<>>)
    \o (IF DigitsAt(s, p, 1) /\ NumAt(s, p, 1) \in 1..9 THEN <<1>> ELSE <<>>)
    \o (IF p + 1 <= Len(s) /\ s[p] = " " /\ DigitsAt(s, p + 1, 1)
            /\ NumAt(s, p + 1, 1) \in 1..9 THEN <<2>> ELSE <<>>)

\* %m is the regex 1[0-2]|0[1-9]|[1-9].
MonthLens(s, p) ==
    (IF DigitsAt(s, p, 2) /\ NumAt(s, p, 2) \in 1..12 THEN <<2>> ELSE <<>>)
    \o (IF DigitsAt(s, p, 1) /\ NumAt(s, p, 1) \in 1..9 THEN <<1>> ELSE <<>>)

\* The value of a %d or %m match of length n at p (a leading space is skipped).
FieldNum(s, p, n) == IF s[p] = " " THEN NumAt(s, p + 1, n - 1) ELSE NumAt(s, p, n)

NoMatch == [ok |-> FALSE, end |-> 0, Y |-> 0, m |-> 0, d |-> 0]

\* re.match of the format's regex at position p of s: the first match in the
\* regex's backtracking order, from format item k on.
RECURSIVE Match(_, _, _, _, _)
RECURSIVE MatchAlts(_, _, _, _, _, _)
MatchAlts(fmt, k, s, p, acc, lens) ==
    IF lens = <<>> THEN NoMatch
    ELSE LET n == Head(lens)
             v == FieldNum(s, p, n)
             r == Match(fmt, k + 1, s, p + n,
                        IF fmt[k] = "%d" THEN [acc EXCEPT !.d = v]
                                         ELSE [acc EXCEPT !.m = v])
         IN  IF r.ok THEN r ELSE MatchAlts(fmt, k, s, p, acc, Tail(lens))

Match(fmt, k, s, p, acc) ==
    IF k > Len(fmt) THEN [acc EXCEPT !.ok = TRUE, !.end = p]
    ELSE CASE fmt[k] = "%Y" ->
                IF DigitsAt(s, p, 4)
                THEN Match(fmt, k + 1, s, p + 4, [acc EXCEPT !.Y = NumAt(s, p, 4)])
                ELSE NoMatch
           [] fmt[k] = "%m" -> MatchAlts(fmt, k, s, p, acc, MonthLens(s, p))
           [] fmt[k] = "%d" -> MatchAlts(fmt, k, s, p, acc, DayLens(s, p))
           [] OTHER ->
                IF p <= Len(s) /\ s[p] = fmt[k]
                THEN Match(fmt, k + 1, s, p + 1, acc)
                ELSE NoMatch

IsLeap(y) == (y % 4 = 0 /\ y % 100 # 0) \/ y % 400 = 0

DaysInMonth(y, m) ==
    IF m = 2 THEN (IF IsLeap(y) THEN 29 ELSE 28)
    ELSE IF m \in {4, 6, 9, 11} THEN 30 ELSE 31

\* datetime.strptime(s, fmt): ok = FALSE stands for ValueError (no match,
\* unconverted data remaining, or a day/year out of range).
strptime(s, fmt) ==
    LET r == Match(fmt, 1, s, 1, NoMatch)
    IN  IF r.ok /\ r.end = Len(s) + 1 /\ r.Y >= 1 /\ r.d <= DaysInMonth(r.Y, r.m)
        THEN [ok |-> TRUE, Y |-> r.Y, m |-> r.m, d |-> r.d]
        ELSE [ok |-> FALSE, Y |-> 0, m |-> 0, d |-> 0]

FmtIso == <<"%Y", "-", "%m", "-", "%d">>
FmtBr == <<"%d", "/", "%m", "/", "%Y">>
FmtDigits == <<"%d", "%m", "%Y">>

\* The date parsing of create_appointment: ISO, then DD/MM/YYYY, then the
\* separators removed and DDMMYYYY. ok = FALSE: the last strptime raised.
ParseDate(date) ==
    LET a == strptime(date, FmtIso)
        b == strptime(date, FmtBr)
        clean == RemoveCh(RemoveCh(date, "/"), "-")
    IN  IF a.ok THEN a ELSE IF b.ok THEN b ELSE strptime(clean, FmtDigits)

Two(n) == <<DigitCh(n \div 10), DigitCh(n % 10)>>

\* %Y of strftime (glibc does not pad the year).
RECURSIVE YearStr(_)
YearStr(y) == IF y < 10 THEN <<DigitCh(y)>> ELSE YearStr(y \div 10) \o <<DigitCh(y % 10)>>

\* dt.strftime("%Y-%m-%d")
DateIso(dt) == YearStr(dt.Y) \o <<"-">> \o Two(dt.m) \o <<"-">> \o Two(dt.d)

\* dt.strftime("%d/%m/%Y")
DateBr(dt) == Two(dt.d) \o <<"/">> \o Two(dt.m) \o <<"/">> \o YearStr(dt.Y)

---------------------------------------------------------------------------
(* capture_popup_content and the classification of the text it returns.    *)

\* A literal of the source kept as one symbol of a message.
Lit(str) == <<str>>

T_Invalid == <<" ", "H", "o", "r", "á", "r", "i", "o", " ", "i", "n", "v", "á", "l", "i", "d", "o", "\n">>
T_ERRO == <<"E", "R", "R", "O">>
T_Falha == <<"F", "a", "l", "h", "a">>
T_Nao == <<"N", "ã", "o", " ", "h", "á">>
T_Info == <<"A", "g", "u", "a", "r", "d", "e">>
T_Blank == <<" ", " ">>

\* The XPath selectors capture_popup_content scans, by position in
\* popup_selectors: 1 modal+show, 2 alert, 3 error, 4 warning, 5 dialog,
\* 6 alertdialog, 7 swal, 8 toast, 9 notification, 10 message.
NumSelectors == 10

NoAlertOpen == [open |-> FALSE, text |-> <<>>]
AlertOpen(t) == [open |-> TRUE, text |-> t]
\* One match of selector sel, in document order within elems.
Elem(sel, displayed, stale, text) ==
    [sel |-> sel, displayed |-> displayed, stale |-> stale, text |-> text]

\* What the page can show when it is scanned: the native alert and the
\* elements matching the selectors, in document order.
PopupPages ==
    { [alert |-> NoAlertOpen, elems |-> <<>>],
      [alert |-> AlertOpen(T_ERRO), elems |-> <<Elem(8, TRUE, FALSE, T_Info)>>],
      [alert |-> NoAlertOpen, elems |-> <<Elem(8, TRUE, FALSE, T_Invalid)>>],
      [alert |-> NoAlertOpen, elems |-> <<Elem(7, TRUE, FALSE, T_Info)>>],
      [alert |-> NoAlertOpen, elems |-> <<Elem(2, TRUE, FALSE, T_Nao)>>],
      [alert |-> NoAlertOpen,
       elems |-> <<Elem(1, FALSE, FALSE, T_Falha), Elem(8, TRUE, FALSE, T_Info)>>],
      [alert |-> NoAlertOpen,
       elems |-> <<Elem(8, TRUE, FALSE, T_Falha), Elem(2, TRUE, FALSE, T_Info)>>],
      [alert |-> NoAlertOpen,
       elems |-> <<Elem(2, TRUE, TRUE, T_Falha), Elem(2, TRUE, FALSE, T_ERRO),
                   Elem(10, TRUE, FALSE, T_Blank)>>] }

NoPopup == [found |-> FALSE, type |-> "None", text |-> <<>>]

\* The inner loop body of capture_popup_content reaches element i of the page:
\* no earlier match of the same selector raised (a raise inside the try skips
\* the rest of that selector), and the element is displayed with text left
\* after strip().
Reported(pg, i) ==
    /\ ~pg.elems[i].stale
    /\ pg.elems[i].displayed
    /\ Strip(pg.elems[i].text) # <<>>
    /\ \A j \in 1..(i - 1) : pg.elems[j].sel = pg.elems[i].sel => ~pg.elems[j].stale

\* capture_popup_content: the open alert first, otherwise the first selector of
\* popup_selectors with a reported element, and its first such element.
capture_popup_content(pg) ==
    IF pg.alert.open
    THEN [found |-> TRUE, type |-> "browser_alert", text |-> pg.alert.text]
    ELSE LET hits == {i \in 1..Len(pg.elems) :
                        pg.elems[i].sel \in 1..NumSelectors /\ Reported(pg, i)}
         IN  IF hits = {} THEN NoPopup
             ELSE LET best == CHOOSE i \in hits : \A j \in hits :
                                 \/ pg.elems[i].sel < pg.elems[j].sel
                                 \/ pg.elems[i].sel = pg.elems[j].sel /\ i <= j
                  IN  [found |-> TRUE, type |-> "modal/popup",
                       text |-> Strip(pg.elems[best].text)]

\* error_keywords of create_appointment.
error_keywords ==
    << <<"e", "r", "r", "o">>, <<"e", "r", "r", "o", "r">>,
       <<"f", "a", "l", "h", "a">>,
       <<"i", "n", "v", "á", "l", "i", "d", "o">>,
       <<"i", "n", "v", "a", "l", "i", "d">>,
       <<"n", "ã", "o">>, <<"n", "a", "o">> >>

\* Mutant: the text is not lowered before the keywords are looked for.
is_error_CaseSensitive(text) ==
    \E k \in 1..Len(error_keywords) : Contains(text, error_keywords[k])

\* is_error = any(keyword in popup['text'].lower() for keyword in error_keywords)
is_error(text) ==
    \E k \in 1..Len(error_keywords) : Contains(Lower(text), error_keywords[k])

\* error_msg raised for an error popup after save.
PopupErrorMsg(text) == Lit("Erro no popup: ") \o text

\* Mutant: the message of the caught exception is left out.
SaveErrorMsg_DropCause(e, popup) ==
    IF popup.found
    THEN Lit("Erro ao salvar agendamento: ") \o Lit("\nConteúdo do popup: ") \o popup.text
    ELSE Lit("Erro ao salvar agendamento: ")

\* error_msg built by the except branch that wraps the save step.
SaveErrorMsg(e, popup) ==
    IF popup.found
    THEN Lit("Erro ao salvar agendamento: ") \o e
             \o Lit("\nConteúdo do popup: ") \o popup.text
    ELSE Lit("Erro ao salvar agendamento: ") \o e

\* Mutant: the message does not quote the popup.
BlockedMsg_NoText(text) == Lit("O clique foi bloqueado por um pop-up")

\* error_msg raised when the click on the add button is intercepted.
BlockedMsg(text) ==
    Lit("O clique foi bloqueado por um pop-up com a mensagem: '") \o text \o Lit("'")

---------------------------------------------------------------------------
(* Requests, the page's widgets, and the state of one request.             *)

required_fields ==
    <<"email", "password", "client", "date", "start_time", "end_time",
      "branch", "professional", "services">>

FieldNames == {required_fields[k] : k \in 1..Len(required_fields)}

D_Iso == <<"2", "0", "2", "5", "-", "1", "0", "-", "0", "3">>
D_Br == <<"0", "3", "/", "1", "0", "/", "2", "0", "2", "5">>
D_Digits == <<"3", "1", "0", "2", "0", "2", "5">>
D_NoSuchDay == <<"2", "0", "2", "5", "-", "0", "2", "-", "3", "0">>
D_Trailing == <<"2", "0", "2", "5", "-", "1", "0", "-", "0", "3", "1">>
D_Words == <<"a", "m", "a", "n", "h", "ã">>
DateSamples == {D_Iso, D_Br, D_Digits, D_NoSuchDay, D_Trailing, D_Words}

T_Start == <<"1", "1", ":", "4", "0">>
T_End == <<"1", "1", ":", "5", "0">>

ServiceNames == {"Corte de Cabelo", "Barba"}

\* A JSON array of service names.
List(items) == [isList |-> TRUE, items |-> items]
\* A JSON value for "services" that is not an array.
NotAList == [isList |-> FALSE, items |-> <<>>]

ServiceLists ==
    UNION {[1..n -> ServiceNames] : n \in 1..MaxServices}

FullObject(date, services) ==
    [email |-> "user@example.com", password |-> "password123",
     client |-> "Ana", date |-> date, start_time |-> T_Start,
     end_time |-> T_End, branch |-> "Centro",
     professional |-> "Miguel Oliveira", services |-> services]

Restrict(obj, keys) == [k \in keys |-> obj[k]]

\* request.get_json(): a JSON object, or None when the body holds no JSON.
JsonObject(obj) == [isObject |-> TRUE, obj |-> obj]
JsonNone == [isObject |-> FALSE, obj |-> <<>>]

\* The request bodies of the model: no JSON, every set of missing fields,
\* every services value (not an array, empty, the lists up to MaxServices),
\* every sample date.
Requests ==
    {JsonNone}
    \cup {JsonObject(Restrict(FullObject(D_Iso, List(<<"Barba">>)), keys)) :
            keys \in SUBSET FieldNames}
    \cup {JsonObject(FullObject(D_Iso, sv)) :
            sv \in {NotAList, List(<<>>)} \cup {List(l) : l \in ServiceLists}}
    \cup {JsonObject(FullObject(d, List(<<"Corte de Cabelo">>))) : d \in DateSamples}

\* How the page's date and time inputs react to a write (the environment):
\*   masked      keeps the typed and the assigned text
\*   native      a native date input: typing DD/MM/YYYY yields the ISO value
\*   mangling    a mask that drops the last typed character
\*   controlled  keeps typed text, reverts a scripted assignment
WidgetKinds == {"masked", "native", "mangling", "controlled"}

VARIABLES
    unit,       \* the helper calls made on one page, outside a request
    conc,       \* the requests the server handles at the same time
    entry,      \* "api": create_appointment_api; "cli": main
    widget,     \* the kind of the page's date and time inputs
    body,       \* request.get_json()
    pc,         \* the position of the request in the code
    trace,      \* the operations performed on the driver so far, in order
    fields,     \* the values the page holds in age_data, age_inicio, age_fim
    svc,        \* the index of the service the loop is at
    dt,         \* the parsed date
    exc,        \* the exception in flight
    exit,       \* how create_appointment ended
    response    \* the HTTP response (api), the process exit (cli)

vars == <<unit, conc, entry, widget, body, pc, trace, fields, svc, dt, exc, exit,
          response>>

data == body.obj

\* One driver operation: ok = FALSE when it raised; text is what it typed or read.
Ev(op, arg, ok, text) == [op |-> op, arg |-> arg, ok |-> ok, text |-> text]
Log(op, arg, ok) == Append(trace, Ev(op, arg, ok, <<>>))

NoExc == [raised |-> FALSE, msg |-> <<>>]
Raise(msg) == [raised |-> TRUE, msg |-> msg]

NoDate == [ok |-> FALSE, Y |-> 0, m |-> 0, d |-> 0]
NoResponse == [sent |-> FALSE, status |-> 0, body |-> [success |-> FALSE]]
EmptyFields == [age_data |-> <<>>, age_inicio |-> <<>>, age_fim |-> <<>>]

\* No helper call made; no concurrent request.
NoCall == [kind |-> "none", target |-> "none", value |-> <<>>, after |-> <<>>]
NoUnit == [calls |-> 0, input |-> <<>>, prev |-> NoCall, last |-> NoCall]
NoConc == [pc |-> <<>>, valid |-> <<>>, driver |-> <<>>, sessions |-> 0, log |-> {}]

Init ==
    /\ entry \in {"api", "cli"}
    /\ widget \in WidgetKinds
    /\ body \in Requests
    /\ entry = "cli" => body = JsonObject(FullObject(D_Iso, List(<<"Barba">>)))
    /\ (~body.isObject \/ DOMAIN body.obj # FieldNames
          \/ ~body.obj.services.isList \/ entry = "cli") => widget = "masked"
    /\ pc = IF entry = "api" THEN "recv" ELSE "cli_create_driver"
    /\ trace = <<>>
    /\ fields = EmptyFields
    /\ svc = 0
    /\ dt = NoDate
    /\ exc = NoExc
    /\ exit = "none"
    /\ response = NoResponse
    /\ unit = NoUnit
    /\ conc = NoConc

---------------------------------------------------------------------------
(* create_appointment_api: validation, the driver, login and navigation.   *)

\* Mutant: the error body is sent with the default status.
ErrorResponse_Status200(status, msg) ==
    [sent |-> TRUE, status |-> 200, body |-> [success |-> FALSE, error |-> msg]]

\* The JSON body and status of a response. The traceback the error body also
\* carries is left out.
ErrorResponse(status, msg) ==
    [sent |-> TRUE, status |-> status, body |-> [success |-> FALSE, error |-> msg]]

\* Mutant: start and end time are swapped in the echo.
SuccessResponse_Swapped ==
    [sent |-> TRUE, status |-> 200,
     body |-> [success |-> TRUE,
               message |-> Lit("Appointment created successfully"),
               data |-> [client |-> data.client, date |-> data.date,
                         start_time |-> data.end_time,
                         end_time |-> data.start_time, branch |-> data.branch,
                         professional |-> data.professional,
                         services |-> data.services]]]

\* The 200 response: the request's fields echoed under "data".
SuccessResponse ==
    [sent |-> TRUE, status |-> 200,
     body |-> [success |-> TRUE,
               message |-> Lit("Appointment created successfully"),
               data |-> [client |-> data.client, date |-> data.date,
                         start_time |-> data.start_time,
                         end_time |-> data.end_time, branch |-> data.branch,
                         professional |-> data.professional,
                         services |-> data.services]]]

\* missing_fields = [field for field in required_fields if field not in data]
missing_fields == SelectSeq(required_fields, LAMBDA f : f \notin DOMAIN data)

\* ', '.join(names)
RECURSIVE Join(_)
Join(names) ==
    IF Len(names) = 0 THEN <<>>
    ELSE IF Len(names) = 1 THEN Lit(names[1])
    ELSE Lit(names[1]) \o Lit(", ") \o Join(Tail(names))

\* Mutant: the emptiness of the list is not checked.
ServicesInvalid_TypeOnly == ~data.services.isList

\* The services value is rejected: not a list, or an empty one.
ServicesInvalid == ~data.services.isList \/ Len(data.services.items) = 0

\* Lines 91-127: read the body and validate it. `field not in None` raises
\* TypeError, which the outer except turns into a 500.
Validate ==
    /\ pc = "recv"
    /\ IF ~body.isObject
       THEN /\ response' = ErrorResponse(500, Lit("TypeError"))
            /\ pc' = "done"
       ELSE IF missing_fields # <<>>
       THEN /\ response' = ErrorResponse(400, Lit("Missing required fields: ")
                                                 \o Join(missing_fields))
            /\ pc' = "done"
       ELSE IF ServicesInvalid
       THEN /\ response' = ErrorResponse(400, Lit("services must be a non-empty array"))
            /\ pc' = "done"
       ELSE /\ response' = response
            /\ pc' = "create_driver"
    /\ UNCHANGED <<unit, conc, entry, widget, body, trace, fields, svc, dt, exc, exit>>

\* Line 129: driver = create_driver(), outside the inner try.
CreateDriver ==
    /\ pc = "create_driver"
    /\ \E ok \in BOOLEAN :
         /\ trace' = Log("create_driver", 0, ok)
         /\ IF ok
            THEN pc' = "login" /\ response' = response
            ELSE /\ pc' = "done"
                 /\ response' = ErrorResponse(500, Lit("WebDriverException"))
    /\ UNCHANGED <<unit, conc, entry, widget, body, fields, svc, dt, exc, exit>>

\* Mutant: the handler has no finally, an exception goes straight to the end.
Unwind_NoFinally == "done"

\* Mutant: an exception of a step is swallowed and the run goes on to save.
Unwind_Swallowed == "ca_save"

\* Where an exception raised inside the inner try of the handler goes.
Unwind == "api_finally"

\* Mutant: a step that raises is swallowed and the next step runs anyway.
DriverStep_Continue(at, op, arg, next, err) ==
    /\ pc = at
    /\ \E ok \in BOOLEAN : trace' = Log(op, arg, ok)
    /\ pc' = next
    /\ UNCHANGED <<unit, conc, entry, widget, body, fields, dt, exc, exit, response>>

\* Mutant: a step that raises is tried again.
DriverStep_Retry(at, op, arg, next, err) ==
    /\ pc = at
    /\ \E ok \in BOOLEAN :
         /\ trace' = Log(op, arg, ok)
         /\ pc' = IF ok THEN next ELSE at
    /\ UNCHANGED <<unit, conc, entry, widget, body, fields, dt, exc, exit, response>>

\* One step that performs driver operation op and either completes or raises.
DriverStep(at, op, arg, next, err) ==
    /\ pc = at
    /\ \E ok \in BOOLEAN :
         /\ trace' = Log(op, arg, ok)
         /\ IF ok
            THEN pc' = next /\ exc' = exc /\ exit' = exit
            ELSE pc' = Unwind /\ exc' = Raise(Lit(err))
                   /\ exit' = IF at \in {"login", "open_page"} THEN exit ELSE "raised"
    /\ UNCHANGED <<unit, conc, entry, widget, body, fields, dt, response>>

\* login_to_cashbarber
Login ==
    DriverStep("login", "login", 0, "open_page", "TimeoutException") /\ svc' = svc

\* open_appointments_page
OpenPage ==
    DriverStep("open_page", "open_page", 0, "ca_open", "TimeoutException") /\ svc' = svc

---------------------------------------------------------------------------
(* create_appointment, step by step.                                       *)

\* Lines 292-315: click "Novo agendamento", wait for the modal and its form.
OpenModal ==
    DriverStep("ca_open", "open_modal", 0, "ca_type", "TimeoutException") /\ svc' = svc

\* Lines 317-325
SelectType ==
    DriverStep("ca_type", "select_type", 0, "ca_client", "NoSuchElementException")
    /\ svc' = svc

\* Lines 327-332
SelectClient ==
    DriverStep("ca_client", "select_client", 0, "ca_branch", "TimeoutException")
    /\ svc' = svc

\* Lines 334-343
SelectBranch ==
    DriverStep("ca_branch", "select_branch", 0, "ca_prof", "NoSuchElementException")
    /\ svc' = svc

\* Lines 345-353, and the entry of the services loop.
SelectProfessional ==
    DriverStep("ca_prof", "select_professional", 0, "ca_svc_auto", "NoSuchElementException")
    /\ svc' = 1

\* Mutant: the services are taken from the last to the first.
services_Reversed ==
    [i \in 1..Len(data.services.items) |->
        data.services.items[Len(data.services.items) - i + 1]]

\* Line 357: the services of the request, in the order the loop takes them.
services == data.services.items

\* Line 359: autocomplete_select for the service the loop is at.
ServiceAutocomplete ==
    /\ pc = "ca_svc_auto"
    /\ \E ok \in BOOLEAN :
         /\ trace' = Append(trace, Ev("svc_autocomplete", svc, ok, Lit(services[svc])))
         /\ IF ok
            THEN pc' = "ca_svc_wait" /\ exc' = exc /\ exit' = exit
            ELSE pc' = Unwind /\ exc' = Raise(Lit("TimeoutException")) /\ exit' = "raised"
    /\ UNCHANGED <<unit, conc, entry, widget, body, fields, svc, dt, response>>

\* Lines 364-370: the wait for the loading overlay; its timeout is swallowed,
\* any other driver error propagates.
ServiceWaitOverlay ==
    /\ pc = "ca_svc_wait"
    /\ \E how \in {"gone", "timeout", "error"} :
         /\ trace' = Log("svc_wait_overlay", svc, how = "gone")
         /\ IF how = "error"
            THEN pc' = Unwind /\ exc' = Raise(Lit("WebDriverException")) /\ exit' = "raised"
            ELSE pc' = "ca_svc_add" /\ exc' = exc /\ exit' = exit
    /\ UNCHANGED <<unit, conc, entry, widget, body, fields, svc, dt, response>>

\* Mutant: the loop ends one service early.
AfterAdd_OffByOne == IF svc + 1 < Len(services) THEN "ca_svc_auto" ELSE "ca_parse"

\* Where the loop goes after the add click of service svc.
AfterAdd == IF svc < Len(services) THEN "ca_svc_auto" ELSE "ca_parse"

\* The message of the exception of a click that another element received.
Intercepted == Lit("ElementClickInterceptedException")

\* Lines 375-398: wait for the add button, click it; an intercepted click
\* captures the popup and raises; any other exception of the click leaves
\* the function as it is.
ServiceClickAdd ==
    /\ pc = "ca_svc_add"
    /\ \/ /\ trace' = Log("svc_button_wait", svc, FALSE)
          /\ pc' = Unwind /\ exc' = Raise(Lit("TimeoutException")) /\ exit' = "raised"
          /\ svc' = svc
       \/ /\ trace' = Log("svc_add", svc, TRUE)
          /\ pc' = AfterAdd /\ exc' = exc /\ exit' = exit
          /\ svc' = IF svc < Len(services) THEN svc + 1 ELSE svc
       \/ \E pg \in PopupPages :
            LET popup == capture_popup_content(pg)
            IN  /\ trace' = trace \o <<Ev("svc_add", svc, FALSE, Intercepted),
                                       Ev("capture", 0, popup.found, popup.text)>>
                /\ exc' = IF popup.found
                          THEN Raise(BlockedMsg(popup.text))
                          ELSE Raise(Intercepted)
                /\ pc' = Unwind /\ exit' = "raised" /\ svc' = svc
       \/ /\ trace' = Append(trace, Ev("svc_add", svc, FALSE,
                                       Lit("StaleElementReferenceException")))
          /\ exc' = Raise(Lit("StaleElementReferenceException"))
          /\ pc' = Unwind /\ exit' = "raised" /\ svc' = svc
    /\ UNCHANGED <<unit, conc, entry, widget, body, fields, dt, response>>

\* Lines 406-416: parse the date; the last strptime's ValueError propagates.
ParseDateStep ==
    /\ pc = "ca_parse"
    /\ dt' = ParseDate(data.date)
    /\ IF dt'.ok
       THEN pc' = "ca_ks_date" /\ exc' = exc /\ exit' = exit
       ELSE pc' = Unwind /\ exc' = Raise(Lit("ValueError")) /\ exit' = "raised"
    /\ UNCHANGED <<unit, conc, entry, widget, body, trace, fields, svc, response>>

\* Mutant: clear() leaves the content in place.
clear_Noop(content) == content

\* element.clear(): the input is emptied.
clear(content) == <<>>

\* element.send_keys(text): the keys go in after what the input holds.
send_keys(content, text) == content \o text

\* What the input shows once it holds `text` after send_keys.
KsEcho(field, text) ==
    CASE widget = "native" /\ field = "age_data" -> DateIso(dt)
      [] widget = "mangling" -> SubSeq(text, 1, Len(text) - 1)
      [] OTHER -> text

\* Lines 427-429 (and 436-438, 445-447): clear(), then send_keys(text), on an
\* input that held `content`.
KsWriteValue(field, content, text) ==
    KsEcho(field, send_keys(clear(content), text))

\* What the input holds after the script assigned `text` to its value.
JsEcho(field, text) ==
    IF widget = "controlled" THEN fields[field] ELSE text

\* Mutant: an exception of the keystroke write is not caught, there is no
\* fallback.
KsWrite_NoFallback(at, op, field, text, next) ==
    /\ pc = at
    /\ \/ /\ trace' = Append(trace, Ev(op, 0, TRUE, text))
          /\ fields' = [fields EXCEPT ![field] = KsWriteValue(field, fields[field], text)]
          /\ pc' = next /\ exc' = exc /\ exit' = exit
       \/ /\ trace' = Append(trace, Ev(op, 0, FALSE, <<>>))
          /\ fields' = fields
          /\ pc' = "api_finally" /\ exc' = Raise(Lit("NoSuchElementException"))
          /\ exit' = "raised"
    /\ UNCHANGED <<unit, conc, entry, widget, body, svc, dt, response>>

\* Mutant: the fallback starts at the field whose keystroke write raised.
KsWrite_ResumeAtField(at, op, field, text, next) ==
    /\ pc = at
    /\ \/ /\ trace' = Append(trace, Ev(op, 0, TRUE, text))
          /\ fields' = [fields EXCEPT ![field] = KsWriteValue(field, fields[field], text)]
          /\ pc' = next
       \/ /\ trace' = Append(trace, Ev(op, 0, FALSE, <<>>))
          /\ fields' = fields
          /\ pc' = CASE at = "ca_ks_date" -> "ca_js_date"
                     [] at = "ca_ks_start" -> "ca_js_start"
                     [] OTHER -> "ca_js_end"
    /\ UNCHANGED <<unit, conc, entry, widget, body, svc, dt, exc, exit, response>>

\* Lines 424-448, one field of the keystroke write: find, click, clear,
\* send_keys. A raise before clear() leaves the field as it was, one after it
\* leaves it empty; both are caught by the except that starts the fallback.
KsWrite(at, op, field, text, next) ==
    /\ pc = at
    /\ \/ /\ trace' = Append(trace, Ev(op, 0, TRUE, text))
          /\ fields' = [fields EXCEPT ![field] = KsWriteValue(field, fields[field], text)]
          /\ pc' = next
       \/ /\ trace' = Append(trace, Ev(op, 0, FALSE, <<>>))
          /\ fields' \in {fields, [fields EXCEPT ![field] = <<>>]}
          /\ pc' = "ca_js_date"
    /\ UNCHANGED <<unit, conc, entry, widget, body, svc, dt, exc, exit, response>>

KeystrokeDate == KsWrite("ca_ks_date", "ks_date", "age_data", DateBr(dt), "ca_ks_start")
KeystrokeStart == KsWrite("ca_ks_start", "ks_start", "age_inicio", data.start_time, "ca_ks_end")
KeystrokeEnd == KsWrite("ca_ks_end", "ks_end", "age_fim", data.end_time, "ca_save")

\* Lines 464-474, one field of the scripted fallback: find_element, then
\* execute_script; an exception here is not caught by create_appointment.
JsWrite(at, op, field, text, next) ==
    /\ pc = at
    /\ \/ /\ trace' = Append(trace, Ev(op, 0, TRUE, text))
          /\ fields' = [fields EXCEPT ![field] = JsEcho(field, text)]
          /\ pc' = next /\ exc' = exc /\ exit' = exit
       \/ /\ trace' = Append(trace, Ev(op, 0, FALSE, <<>>))
          /\ fields' = fields
          /\ pc' = Unwind /\ exc' = Raise(Lit("NoSuchElementException"))
          /\ exit' = "raised"
    /\ UNCHANGED <<unit, conc, entry, widget, body, svc, dt, response>>

ScriptDate == JsWrite("ca_js_date", "js_date", "age_data", DateIso(dt), "ca_js_start")
ScriptStart == JsWrite("ca_js_start", "js_start", "age_inicio", data.start_time, "ca_js_end")
ScriptEnd == JsWrite("ca_js_end", "js_end", "age_fim", data.end_time, "ca_save")

\* Lines 484-485: find the save button and click it, inside the try whose
\* except wraps every error of the save step.
ClickSave ==
    /\ pc = "ca_save"
    /\ \/ /\ trace' = Log("save_find", 0, FALSE)
          /\ exc' = Raise(Lit("NoSuchElementException")) /\ pc' = "ca_except"
       \/ /\ trace' = Log("save_click", 0, FALSE)
          /\ exc' = Raise(Lit("ElementClickInterceptedException")) /\ pc' = "ca_except"
       \/ /\ trace' = Log("save_click", 0, TRUE)
          /\ exc' = exc /\ pc' = "ca_popup1"
    /\ UNCHANGED <<unit, conc, entry, widget, body, fields, svc, dt, exit, response>>

\* Lines 489-507: the first popup check after save; an error popup raises.
CheckPopupAfterSave ==
    /\ pc = "ca_popup1"
    /\ \E pg \in PopupPages :
         LET popup == capture_popup_content(pg)
         IN  /\ trace' = Append(trace, Ev("capture", 1, popup.found, popup.text))
             /\ IF popup.found /\ is_error(popup.text)
                THEN exc' = Raise(PopupErrorMsg(popup.text)) /\ pc' = "ca_except"
                ELSE exc' = exc /\ pc' = "ca_wait_modal"
    /\ UNCHANGED <<unit, conc, entry, widget, body, fields, svc, dt, exit, response>>

\* Mutant: the wait has no timeout; while the modal stays open it never
\* returns.
WaitModalClose_Unbounded ==
    /\ pc = "ca_wait_modal"
    /\ FALSE
    /\ UNCHANGED vars

\* Lines 510-516: the wait for the modal to close.
WaitModalClose ==
    /\ pc = "ca_wait_modal"
    /\ \/ /\ trace' = Log("wait_modal", 0, TRUE)
          /\ exit' = "modal_closed" /\ pc' = Unwind /\ exc' = exc
       \/ /\ trace' = Log("wait_modal", 0, FALSE)
          /\ exit' = exit /\ pc' = "ca_popup2" /\ exc' = exc
       \/ /\ trace' = Log("wait_modal", 0, FALSE)
          /\ exit' = exit /\ pc' = "ca_except"
          /\ exc' = Raise(Lit("WebDriverException"))
    /\ UNCHANGED <<unit, conc, entry, widget, body, fields, svc, dt, response>>

\* Lines 517-539: after the timeout, capture the popup again (it is printed,
\* nothing else), then look for a displayed success text; an error of that
\* lookup is swallowed. With no success text the function falls off its end.
RecheckAfterTimeout ==
    /\ pc = "ca_popup2"
    /\ \E pg \in PopupPages, shown \in {"shown", "none", "error"} :
         LET popup == capture_popup_content(pg)
         IN  /\ trace' = trace \o <<Ev("capture", 2, popup.found, popup.text),
                                    Ev("find_success", 0, shown = "shown", <<>>)>>
             /\ exit' = IF shown = "shown" THEN "success_text" ELSE "no_signal"
    /\ pc' = Unwind
    /\ UNCHANGED <<unit, conc, entry, widget, body, fields, svc, dt, exc, response>>

\* Lines 541-558: the except of the save step captures the popup, builds the
\* message and raises it.
SaveExcept ==
    /\ pc = "ca_except"
    /\ \E pg \in PopupPages :
         LET popup == capture_popup_content(pg)
         IN  /\ trace' = Append(trace, Ev("capture", 3, popup.found, popup.text))
             /\ exc' = Raise(SaveErrorMsg(exc.msg, popup))
    /\ exit' = "raised"
    /\ pc' = Unwind
    /\ UNCHANGED <<unit, conc, entry, widget, body, fields, svc, dt, response>>

---------------------------------------------------------------------------
(* The end of the handler, and the CLI.                                    *)

\* api.py lines 143-175: the finally runs driver.quit(); then the response is
\* the 200 built before it, or the outer except's 500 for the exception in
\* flight. quit() of webdriver.Chrome swallows the errors of the remote call,
\* so it completes.
ApiFinally ==
    /\ pc = "api_finally"
    /\ trace' = Log("quit", 0, TRUE)
    /\ response' = IF exc.raised THEN ErrorResponse(500, exc.msg)
                   ELSE SuccessResponse
    /\ pc' = "done"
    /\ UNCHANGED <<unit, conc, entry, widget, body, fields, svc, dt, exc, exit>>

\* main, line 599: the driver is created outside the try.
CliCreateDriver ==
    /\ pc = "cli_create_driver"
    /\ \E ok \in BOOLEAN :
         /\ trace' = Log("create_driver", 0, ok)
         /\ IF ok THEN pc' = "cli_login" /\ exc' = exc
                  ELSE pc' = "done" /\ exc' = Raise(Lit("WebDriverException"))
    /\ UNCHANGED <<unit, conc, entry, widget, body, fields, svc, dt, exit, response>>

\* main, line 602: the call names login_to_cashberber, which the module does
\* not define: NameError, before any driver operation.
CliLogin ==
    /\ pc = "cli_login"
    /\ exc' = Raise(Lit("NameError"))
    /\ pc' = "cli_except"
    /\ UNCHANGED <<unit, conc, entry, widget, body, trace, fields, svc, dt, exit, response>>

\* main, lines 616-623: screenshot and page dump, then re-raise.
CliExcept ==
    /\ pc = "cli_except"
    /\ \E ok \in BOOLEAN :
         /\ trace' = Log("screenshot", 0, ok)
         /\ exc' = IF ok THEN exc ELSE Raise(Lit("WebDriverException"))
    /\ pc' = "cli_finally"
    /\ UNCHANGED <<unit, conc, entry, widget, body, fields, svc, dt, exit, response>>

\* main, lines 624-625
CliFinally ==
    /\ pc = "cli_finally"
    /\ trace' = Log("quit", 0, TRUE)
    /\ pc' = "done"
    /\ UNCHANGED <<unit, conc, entry, widget, body, fields, svc, dt, exc, exit, response>>

Next ==
    \/ Validate \/ CreateDriver \/ Login \/ OpenPage
    \/ OpenModal \/ SelectType \/ SelectClient \/ SelectBranch
    \/ SelectProfessional
    \/ ServiceAutocomplete \/ ServiceWaitOverlay \/ ServiceClickAdd
    \/ ParseDateStep
    \/ KeystrokeDate \/ KeystrokeStart \/ KeystrokeEnd
    \/ ScriptDate \/ ScriptStart \/ ScriptEnd
    \/ ClickSave \/ CheckPopupAfterSave \/ WaitModalClose
    \/ RecheckAfterTimeout \/ SaveExcept
    \/ ApiFinally
    \/ CliCreateDriver \/ CliLogin \/ CliExcept \/ CliFinally

Spec == Init /\ [][Next]_vars

---------------------------------------------------------------------------
(* Properties.                                                             *)

Events == 1..Len(trace)
Did(op) == \E i \in Events : trace[i].op = op
Count(op) == Cardinality({i \in Events : trace[i].op = op})

DateTimeWrites == {"ks_date", "ks_start", "ks_end", "js_date", "js_start", "js_end"}
ServiceOps == {"svc_autocomplete", "svc_wait_overlay", "svc_button_wait", "svc_add"}

\* C1: every write to the date, start-time or end-time field comes after the
\* add click of every service of the request, the last one included, and no
\* service operation follows a date/time write.
C1_ServicesBeforeDateTime ==
    \A i \in Events :
        trace[i].op \in DateTimeWrites =>
            /\ \A k \in 1..Len(services) :
                 \E j \in 1..(i - 1) : trace[j] = Ev("svc_add", k, TRUE, <<>>)
            /\ \A j \in (i + 1)..Len(trace) : trace[j].op \notin ServiceOps

\* A request with two services has had a date/time field written.
C1_Witness ==
    /\ \E i \in Events : trace[i].op \in DateTimeWrites
    /\ Len(services) = 2

StateOrder ==
    <<"Opened", "TypeSelected", "ClientSelected", "BranchSelected",
      "ProfessionalSelected", "ServicesAdded", "DateTimeSet", "Submitted">>

\* The orchestrator state a completed operation enters ("none": no new state).
Milestone(e) ==
    IF ~e.ok THEN "none"
    ELSE CASE e.op = "open_modal" -> "Opened"
           [] e.op = "select_type" -> "TypeSelected"
           [] e.op = "select_client" -> "ClientSelected"
           [] e.op = "select_branch" -> "BranchSelected"
           [] e.op = "select_professional" -> "ProfessionalSelected"
           [] e.op = "svc_add" /\ e.arg = Len(services) -> "ServicesAdded"
           [] e.op \in {"ks_end", "js_end"} -> "DateTimeSet"
           [] e.op = "save_click" -> "Submitted"
           [] OTHER -> "none"

\* The states entered by the first n operations, in order.
RECURSIVE Visited(_)
Visited(n) ==
    IF n = 0 THEN <<>>
    ELSE IF Milestone(trace[n]) = "none" THEN Visited(n - 1)
    ELSE Append(Visited(n - 1), Milestone(trace[n]))

\* create_appointment returned (Confirmed) or raised (Failed).
Confirmed == exit \in {"modal_closed", "success_text", "no_signal"}
Failed == exit = "raised"

\* The operations of create_appointment whose exception is not handled inside it.
FatalOps ==
    {"open_modal", "select_type", "select_client", "select_branch",
     "select_professional", "svc_autocomplete", "svc_button_wait", "svc_add",
     "js_date", "js_start", "js_end"}

\* C2: the states are entered in the order Opened .. Submitted, none skipped
\* or entered twice; a run that entered create_appointment and left it ended
\* Confirmed (only from Submitted) or Failed; save is looked for and clicked
\* only after the seven earlier states; a failed step before submit is the
\* last step of the run and save is not clicked.
C2_StateOrder ==
    /\ Visited(Len(trace)) = SubSeq(StateOrder, 1, Len(Visited(Len(trace))))
    /\ Confirmed => Visited(Len(trace)) = StateOrder
    /\ (pc \in {"api_finally", "done"} /\ Did("open_modal")) => (Confirmed \/ Failed)
    /\ \A i \in Events :
         trace[i].op \in {"save_find", "save_click"} =>
             Visited(i - 1) = SubSeq(StateOrder, 1, 7)
    /\ \A i \in Events :
         (~trace[i].ok /\ trace[i].op \in FatalOps) =>
             /\ Failed
             /\ ~Did("save_click")
             /\ \A j \in (i + 1)..Len(trace) : trace[j].op \in {"capture", "quit"}

\* A run went through every state and was confirmed.
C2_Witness == Confirmed /\ Visited(Len(trace)) = StateOrder /\ pc = "done"

Created == \E i \in Events : trace[i].op = "create_driver" /\ trace[i].ok

\* C3: driver.quit() is called at most once, only on a created driver, and a
\* request (or CLI run) that created a driver has called it exactly once when
\* it ends, whether it ended with a result or with an exception.
C3_DriverReleasedOnce ==
    /\ Count("quit") <= 1
    /\ Did("quit") => Created
    /\ (pc = "done" \/ response.sent) => Count("quit") = (IF Created THEN 1 ELSE 0)

\* A request that created a driver ended with an exception and released it.
C3_Witness == pc = "done" /\ Created /\ exc.raised /\ Count("quit") = 1

C4_Fields ==
    {"email", "password", "client", "date", "start_time", "end_time",
     "branch", "professional", "services"}

C4_Incomplete ==
    /\ body.isObject
    /\ \/ \E f \in C4_Fields : f \notin DOMAIN body.obj
       \/ body.obj.services.isList /\ Len(body.obj.services.items) = 0

\* C4: a request with a missing field or an empty services list performs no
\* driver operation (no driver is created) and is answered 400 with
\* success false; a body that is no JSON object at all performs none either
\* and is answered with success false.
C4_RejectedBeforeAutomation ==
    (C4_Incomplete \/ ~body.isObject) =>
        /\ trace = <<>>
        /\ pc \in {"recv", "done"}
        /\ pc = "done" =>
             /\ response.sent /\ ~response.body.success
             /\ body.isObject => response.status = 400

\* A request without its date was answered.
C4_Witness ==
    /\ pc = "done" /\ body.isObject
    /\ DOMAIN body.obj = C4_Fields \ {"date"}
    /\ response.status = 400

\* A request with an empty services list was answered.
C4_WitnessEmpty ==
    /\ pc = "done" /\ body.isObject /\ DOMAIN body.obj = C4_Fields
    /\ body.obj.services = List(<<>>)
    /\ response.status = 400

\* The request is complete and its services value a non-empty list.
ValidShape ==
    /\ body.isObject
    /\ DOMAIN body.obj = C4_Fields
    /\ body.obj.services.isList /\ Len(body.obj.services.items) > 0

AutomationOps ==
    {"login", "open_page", "open_modal", "select_type", "select_client",
     "select_branch", "select_professional", "svc_autocomplete", "svc_add"}

\* C5 (as claimed): a request whose date cannot be parsed performs no login,
\* navigation or form step.
C5_MalformedDateNoAutomation ==
    (ValidShape /\ ~ParseDate(body.obj.date).ok) =>
        \A i \in Events : trace[i].op \notin AutomationOps

\* The keywords the claim names.
C6_Keywords ==
    { <<"e", "r", "r", "o">>, <<"e", "r", "r", "o", "r">>,
      <<"f", "a", "l", "h", "a">>,
      <<"i", "n", "v", "á", "l", "i", "d", "o">>,
      <<"i", "n", "v", "a", "l", "i", "d">> }

\* The keywords of the amended claim: the five, and "não" and "nao".
C6_KeywordsAmended == C6_Keywords \cup { <<"n", "ã", "o">>, <<"n", "a", "o">> }

\* Text t, lowered, holds one of the keywords.
HasKeyword(t, keywords) == \E k \in keywords : Contains(Lower(t), k)

\* The first popup check after save has just run and found a popup.
JustChecked ==
    /\ Len(trace) > 0
    /\ trace[Len(trace)].op = "capture" /\ trace[Len(trace)].arg = 1
    /\ trace[Len(trace)].ok

\* The check classified the text as error: it raised the popup error.
ClassifiedError ==
    pc = "ca_except" /\ exc = Raise(Lit("Erro no popup: ") \o trace[Len(trace)].text)

\* The check classified the text as info: nothing raised, the run goes on to
\* wait for the modal.
ClassifiedInfo == pc = "ca_wait_modal" /\ ~exc.raised

\* C6 (as claimed): the text is classified error exactly when it holds one of
\* the five keywords, and info otherwise.
C6_FiveKeywords ==
    JustChecked =>
        IF HasKeyword(trace[Len(trace)].text, C6_Keywords)
        THEN ClassifiedError ELSE ClassifiedInfo

\* C6 (amended): the text is classified error exactly when it holds,
\* case-insensitively, one of erro, error, falha, inválido, invalid, não, nao,
\* and info (the run is not failed by the check) otherwise.
C6_SevenKeywords ==
    JustChecked =>
        IF HasKeyword(trace[Len(trace)].text, C6_KeywordsAmended)
        THEN ClassifiedError ELSE ClassifiedInfo

\* An upper-case error text was classified error, and (a second witness) a
\* text with none of the keywords was classified info.
C6_Witness == JustChecked /\ trace[Len(trace)].text = T_ERRO /\ ClassifiedError
C6_WitnessInfo == JustChecked /\ trace[Len(trace)].text = T_Info /\ ClassifiedInfo

\* C7 (as claimed): a run in which a popup text captured after the save click
\* (by the first check or by the check after the modal wait timed out) holds
\* a negative-outcome keyword does not answer success.
C7_KeywordNeverSuppressed ==
    (pc = "done" /\ response.sent
       /\ \E i \in Events :
            /\ trace[i].op = "capture" /\ trace[i].arg \in {1, 2} /\ trace[i].ok
            /\ HasKeyword(trace[i].text, C6_Keywords))
    => ~response.body.success

\* The first check after save found a popup whose text the code classifies error.
ErrorPopupShown ==
    \E i \in Events :
        /\ trace[i].op = "capture" /\ trace[i].arg = 1 /\ trace[i].ok
        /\ is_error(trace[i].text)

ShownText == trace[CHOOSE i \in Events : trace[i].op = "capture" /\ trace[i].arg = 1].text

\* C8: after an error-classified popup the run is Failed (never Confirmed),
\* and the response is 500 with success false and an error text that holds
\* the captured popup text.
C8_ErrorPopupFails ==
    ErrorPopupShown =>
        /\ ~Confirmed
        /\ pc \in {"api_finally", "done"} => Failed
        /\ pc = "done" =>
             /\ response.sent /\ response.status = 500 /\ ~response.body.success
             /\ Contains(response.body.error, ShownText)

\* The popup "Horário inválido" was shown and the request answered.
C8_Witness ==
    /\ pc = "done" /\ ErrorPopupShown
    /\ ShownText = Strip(T_Invalid)
    /\ response.sent

\* Every operation of the run completed, the first check found no popup and
\* the modal closed.
CleanRun ==
    /\ ValidShape
    /\ Len(trace) > 0
    /\ \A i \in Events : trace[i].ok \/ trace[i].op \in {"capture", "svc_wait_overlay"}
    /\ \E i \in Events : trace[i] = Ev("capture", 1, FALSE, <<>>)
    /\ \E i \in Events : trace[i] = Ev("wait_modal", 0, TRUE, <<>>)

\* C9: a clean run is Confirmed, and its response is 200 with success true
\* and the request's client, date, start_time, end_time, branch, professional
\* and services as received.
C9_ConfirmedEchoesRequest ==
    CleanRun =>
        /\ exit = "modal_closed"
        /\ pc \in {"api_finally", "done"}
        /\ pc = "done" =>
             /\ response.sent /\ response.status = 200 /\ response.body.success
             /\ response.body.data.client = body.obj.client
             /\ response.body.data.date = body.obj.date
             /\ response.body.data.start_time = body.obj.start_time
             /\ response.body.data.end_time = body.obj.end_time
             /\ response.body.data.branch = body.obj.branch
             /\ response.body.data.professional = body.obj.professional
             /\ response.body.data.services = body.obj.services

\* A clean run with two services and a DD/MM/YYYY date was answered.
C9_Witness == CleanRun /\ pc = "done" /\ response.sent /\ Len(services) = 2
C9_WitnessBr == CleanRun /\ pc = "done" /\ response.sent /\ body.obj.date = D_Br

\* C10 (as claimed): a run that ended with no signal (the modal did not
\* close, no success text, no error popup) answers success, and its response
\* carries something that tells it from a confirmed success.
C10_AmbiguityFlagged ==
    (pc = "done" /\ exit = "no_signal") =>
        /\ response.body.success
        /\ \/ "ambiguous" \in DOMAIN response.body
           \/ "warning" \in DOMAIN response.body
           \/ response.body.message # Lit("Appointment created successfully")
           \/ response.status # 200

---------------------------------------------------------------------------
(* The date and time fields as they read back.                             *)

DateTimeFields == {"age_data", "age_inicio", "age_fim"}

\* The forms of the requested value a field may show: the date as DD/MM/YYYY
\* or YYYY-MM-DD, a time as the HH:MM text of the request.
AcceptedForms(field) ==
    CASE field = "age_data" -> {DateBr(dt), DateIso(dt)}
      [] field = "age_inicio" -> {data.start_time}
      [] field = "age_fim" -> {data.end_time}

ReadsBack(field) == fields[field] \in AcceptedForms(field)

KeystrokesCompleted == \E i \in Events : trace[i].op = "ks_end" /\ trace[i].ok
FallbackAttempted == Did("js_date")
FallbackCompleted == \E i \in Events : trace[i].op = "js_end" /\ trace[i].ok

\* C11 (as claimed): a keystroke write whose fields do not read back an
\* accepted form is followed by the scripted fallback even when no exception
\* was raised, and the fallback completes the step only when the fields read
\* back an accepted form after it.
C11_FallbackOnFailedVerification ==
    /\ (KeystrokesCompleted /\ ~FallbackAttempted) =>
          \A f \in DateTimeFields : ReadsBack(f)
    /\ FallbackCompleted => \A f \in DateTimeFields : ReadsBack(f)

\* C12 (as claimed): the save button is clicked only when the date, the
\* start time and the end time each read back an accepted form.
C12_SaveOnlyVerified ==
    Did("save_click") => \A f \in DateTimeFields : ReadsBack(f)

\* C13 (as claimed): after the save click the popup is captured only once the
\* wait for the modal to close has timed out.
C13_PopupOnlyAfterWait ==
    \A i \in Events :
        (trace[i].op = "capture" /\ trace[i].arg \in {1, 2}) =>
            \E j \in 1..(i - 1) : trace[j].op = "wait_modal" /\ ~trace[j].ok

---------------------------------------------------------------------------
(* The phases of a request.                                                *)

FormOps ==
    {"open_modal", "select_type", "select_client", "select_branch",
     "select_professional", "save_find", "save_click"}
        \cup ServiceOps \cup DateTimeWrites

\* 1 login, 2 navigation, 3 form filling, 4 validation of the result;
\* 0 for what belongs to no phase (the driver itself, captures of an except).
Phase(e) ==
    CASE e.op = "login" -> 1
      [] e.op = "open_page" -> 2
      [] e.op \in FormOps -> 3
      [] e.op \in {"wait_modal", "find_success"} -> 4
      [] e.op = "capture" /\ e.arg \in {1, 2} -> 4
      [] OTHER -> 0

Answered500 ==
    /\ response.sent /\ response.status = 500
    /\ ~response.body.success
    /\ Len(response.body.error) > 0

\* C14: the operations of a request come in the order login, navigation,
\* form filling, validation; navigation starts only after a completed login,
\* form filling only after a completed navigation, validation only after a
\* completed save click; a failed login or navigation is followed by nothing
\* but the release of the driver and is answered with success false and a
\* message.
C14_PhaseOrder ==
    /\ \A i, j \in Events :
         (i < j /\ Phase(trace[i]) > 0 /\ Phase(trace[j]) > 0) =>
             Phase(trace[i]) <= Phase(trace[j])
    /\ \A j \in Events :
         /\ Phase(trace[j]) = 2 =>
              \E i \in 1..(j - 1) : trace[i].op = "login" /\ trace[i].ok
         /\ Phase(trace[j]) = 3 =>
              \E i \in 1..(j - 1) : trace[i].op = "open_page" /\ trace[i].ok
         /\ Phase(trace[j]) = 4 =>
              \E i \in 1..(j - 1) : trace[i].op = "save_click" /\ trace[i].ok
    /\ \A i \in Events :
         (trace[i].op \in {"login", "open_page"} /\ ~trace[i].ok) =>
             /\ \A j \in (i + 1)..Len(trace) : trace[j].op = "quit"
             /\ exc.raised
             /\ pc = "done" => Answered500

\* A request whose login completed and whose navigation failed was answered.
C14_Witness ==
    /\ pc = "done" /\ response.sent
    /\ \E i \in Events : trace[i].op = "login" /\ trace[i].ok
    /\ \E i \in Events : trace[i].op = "open_page" /\ ~trace[i].ok

\* The operations the claim lists, the add click counted per listed service.
OnceOps ==
    {"login", "open_page", "select_type", "select_client", "select_branch",
     "select_professional", "svc_add", "save_click"}

\* C15: each of login, navigation, the four selections, the add click of a
\* listed service and the save click occurs at most once in a run; the first
\* of them that fails is followed by no further form operation, and the
\* response is a 500 whose error is the message of the exception raised.
C15_NoRetry ==
    /\ \A i, j \in Events :
         (trace[i].op \in OnceOps /\ trace[j].op = trace[i].op
             /\ trace[j].arg = trace[i].arg) => i = j
    /\ \A i \in Events :
         (trace[i].op \in OnceOps /\ ~trace[i].ok) =>
             /\ \A j \in (i + 1)..Len(trace) : trace[j].op \in {"capture", "quit"}
             /\ pc \in {"api_finally", "done"} => exc.raised
             /\ pc = "done" => (Answered500 /\ response.body.error = exc.msg)
             /\ (pc = "done" /\ trace[i].op = "save_click") =>
                   Contains(response.body.error, Lit("ElementClickInterceptedException"))

\* A run with two services failed at the save click and was answered.
C15_Witness ==
    /\ ValidShape /\ pc = "done" /\ response.sent /\ Len(services) = 2
    /\ \E i \in Events : trace[i].op = "save_click" /\ ~trace[i].ok

---------------------------------------------------------------------------
(* Termination.                                                            *)

\* A step that is possible is eventually taken: every driver call returns or
\* raises (a wait at its timeout at the latest), every sleep ends.
FairSpec == Init /\ [][Next]_vars /\ WF_vars(Next)

\* C16: every run ends; a request is answered, and a run that started on the
\* form has ended Confirmed or Failed.
C16_Terminates ==
    <>(/\ pc = "done"
       /\ entry = "api" => response.sent
       /\ Did("open_modal") => (Confirmed \/ Failed))

\* A run whose waits for the overlay and for the modal both ran into their
\* timeout ended and was answered.
C16_Witness ==
    /\ pc = "done" /\ response.sent
    /\ \E i \in Events : trace[i].op = "svc_wait_overlay" /\ ~trace[i].ok
    /\ \E i \in Events : trace[i].op = "wait_modal" /\ ~trace[i].ok

---------------------------------------------------------------------------
(* The helpers of the form, called on their own on one page.               *)

\* Mutant: the option's text is compared untrimmed.
OptionMatches_NoStrip(text, option_text) ==
    Lower(text) = Lower(Strip(option_text))

\* Line 142: option.text.strip().lower() == option_text.strip().lower()
OptionMatches(text, option_text) ==
    Lower(Strip(text)) = Lower(Strip(option_text))

\* Lines 141-145: the options in document order from the i-th on; the first
\* that matches is clicked and the function returns, past the last one it
\* raises NoSuchElementException. clicked = 0: no option was clicked.
RECURSIVE SelectFrom(_, _, _)
SelectFrom(options, i, option_text) ==
    IF i > Len(options)
    THEN [clicked |-> 0, raised |-> TRUE]
    ELSE IF OptionMatches(options[i], option_text)
         THEN [clicked |-> i, raised |-> FALSE]
         ELSE SelectFrom(options, i + 1, option_text)

select_dropdown_option(options, option_text) == SelectFrom(options, 1, option_text)

\* The texts of the options of a <select>, and the texts asked for.
O_Sede == <<"S", "e", "d", "e">>
O_SedePadded == <<" ", "S", "E", "D", "E", " ">>
O_SedeNorte == <<"S", "e", "d", "e", " ", "N", "o", "r", "t", "e">>
O_Filial == <<"F", "i", "l", "i", "a", "l">>

OptionLists ==
    {<<>>, <<O_Filial>>, <<O_Filial, O_SedePadded, O_Sede>>,
     <<O_Sede, O_SedePadded>>, <<O_SedeNorte, O_Filial>>, <<O_SedeNorte, O_Sede>>}

SelectTexts ==
    {<<"s", "e", "d", "e">>, <<" ", "S", "e", "d", "e", "\n">>,
     <<"N", "o", "r", "t", "e">>}

\* One operation on the autocomplete input or on its suggestion list.
Key(op, ok) == [op |-> op, ok |-> ok]

\* What the page and the driver do during one call of autocomplete_select:
\* the input never appears; clear() raises; a suggestion appears and the click
\* on it completes, or raises (an intercepted or stale element, not a
\* timeout); no suggestion appears and the Enter key goes through, or raises.
AcOutcomes ==
    {"no_input", "stale_input", "suggestion", "click_raises", "no_suggestion",
     "enter_raises"}

SuggestionAppears(how) == how \in {"suggestion", "click_raises"}

\* Mutant: Enter is sent whether or not a suggestion was clicked.
Suggest_AlwaysEnter(how) ==
    CASE how = "suggestion" ->
             [events |-> <<Key("click", TRUE), Key("enter", TRUE)>>, raised |-> FALSE]
      [] how = "click_raises" -> [events |-> <<Key("click", FALSE)>>, raised |-> TRUE]
      [] how = "no_suggestion" -> [events |-> <<Key("enter", TRUE)>>, raised |-> FALSE]
      [] how = "enter_raises" -> [events |-> <<Key("enter", FALSE)>>, raised |-> TRUE]

\* Lines 168-177: the wait for the first suggestion and the click on it, in a
\* try whose except TimeoutException sends Enter.
Suggest(how) ==
    CASE how = "suggestion" -> [events |-> <<Key("click", TRUE)>>, raised |-> FALSE]
      [] how = "click_raises" -> [events |-> <<Key("click", FALSE)>>, raised |-> TRUE]
      [] how = "no_suggestion" -> [events |-> <<Key("enter", TRUE)>>, raised |-> FALSE]
      [] how = "enter_raises" -> [events |-> <<Key("enter", FALSE)>>, raised |-> TRUE]

\* The label the page puts into the input when a suggestion is chosen.
SuggestionLabel(typed) == typed \o Lit(" - 30 min")

\* autocomplete_select on an input that holds `content`: the operations made,
\* whether the call raised, and what the input holds after it.
autocomplete_select(content, value, how) ==
    LET typed == send_keys(clear(content), value)
    IN  CASE how = "no_input" ->
                 [events |-> <<>>, raised |-> TRUE, content |-> content]
          [] how = "stale_input" ->
                 [events |-> <<Key("clear", FALSE)>>, raised |-> TRUE,
                  content |-> content]
          [] OTHER ->
                 [events |-> <<Key("clear", TRUE), Key("send_keys", TRUE)>>
                                \o Suggest(how).events,
                  raised |-> Suggest(how).raised,
                  content |-> IF how = "suggestion" THEN SuggestionLabel(typed)
                              ELSE typed]

\* The calls made in a row on one page.
MaxCalls == 2

\* What an input may hold before a call; the values typed into the
\* autocomplete.
InitialContents == {<<>>, Lit("antes")}
AcValues == {Lit("Barba"), Lit("Ana")}

\* The text the keystroke write types into a field.
Requested(field) ==
    CASE field = "age_data" -> DateBr(dt)
      [] field = "age_inicio" -> data.start_time
      [] field = "age_fim" -> data.end_time

InitWidgets ==
    /\ entry = "page" /\ pc = "idle"
    /\ widget \in WidgetKinds
    /\ body = JsonObject(FullObject(D_Iso, List(<<"Barba">>)))
    /\ dt = ParseDate(D_Iso)
    /\ \E c \in InitialContents :
         fields = [age_data |-> c, age_inicio |-> c, age_fim |-> c]
    /\ \E c \in InitialContents : unit = [NoUnit EXCEPT !.input = c]
    /\ trace = <<>> /\ svc = 0 /\ exc = NoExc /\ exit = "none"
    /\ response = NoResponse
    /\ conc = NoConc

Called(call, input) ==
    [calls |-> unit.calls + 1, input |-> input, prev |-> unit.last, last |-> call]

\* The keystroke write of one field, lines 424-448.
WriteField ==
    /\ pc = "idle" /\ unit.calls < MaxCalls
    /\ \E f \in {"age_data", "age_inicio", "age_fim"} :
         LET after == KsWriteValue(f, fields[f], Requested(f))
         IN  /\ fields' = [fields EXCEPT ![f] = after]
             /\ unit' = Called([kind |-> "write", target |-> f,
                                value |-> Requested(f), after |-> after],
                               unit.input)
    /\ UNCHANGED <<conc, entry, widget, body, pc, trace, svc, dt, exc, exit, response>>

\* One call of autocomplete_select.
CallAutocomplete ==
    /\ pc = "idle" /\ unit.calls < MaxCalls
    /\ \E value \in AcValues, how \in AcOutcomes :
         LET r == autocomplete_select(unit.input, value, how)
         IN  unit' = Called([kind |-> "autocomplete", target |-> "input",
                             value |-> value, after |-> r.content, how |-> how,
                             events |-> r.events, raised |-> r.raised],
                            r.content)
    /\ UNCHANGED <<conc, entry, widget, body, pc, trace, fields, svc, dt, exc, exit,
                   response>>

\* One call of select_dropdown_option.
CallSelect ==
    /\ pc = "idle" /\ unit.calls < MaxCalls
    /\ \E options \in OptionLists, option_text \in SelectTexts :
         LET r == select_dropdown_option(options, option_text)
         IN  unit' = Called([kind |-> "select", target |-> "select",
                             value |-> option_text, after |-> <<>>,
                             options |-> options, clicked |-> r.clicked,
                             raised |-> r.raised],
                            unit.input)
    /\ UNCHANGED <<conc, entry, widget, body, pc, trace, fields, svc, dt, exc, exit,
                   response>>

\* One call of capture_popup_content.
CallCapture ==
    /\ pc = "idle" /\ unit.calls < MaxCalls
    /\ \E pg \in PopupPages :
         LET popup == capture_popup_content(pg)
         IN  unit' = Called([kind |-> "capture", target |-> "page",
                             value |-> <<>>, after |-> <<>>, page |-> pg,
                             found |-> popup.found, type |-> popup.type,
                             text |-> popup.text],
                            unit.input)
    /\ UNCHANGED <<conc, entry, widget, body, pc, trace, fields, svc, dt, exc, exit,
                   response>>

NextWidgets == WriteField \/ CallAutocomplete \/ CallSelect \/ CallCapture

WidgetSpec == InitWidgets /\ [][NextWidgets]_vars


\* C17: of two calls in a row that write the same value into the same input
\* (the keystroke write of a field, or autocomplete_select with the page
\* behaving the same), the second leaves what the first left; and what a
\* write leaves holds nothing of what the input held before it.
C17_WriteIdempotent ==
    LET a == unit.prev
        b == unit.last
    IN  /\ (/\ b.kind \in {"write", "autocomplete"}
            /\ a.kind = b.kind /\ a.target = b.target /\ a.value = b.value
            /\ b.kind = "autocomplete" => a.how = b.how)
               => b.after = a.after
        /\ (b.kind = "write" /\ widget \in {"masked", "controlled"})
               => b.after = b.value
        /\ (b.kind = "autocomplete" /\ b.how \in {"no_suggestion", "click_raises"})
               => b.after = b.value

\* The same field was written twice in a row, the first time over older
\* content.
C17_Witness ==
    /\ unit.prev.kind = "write" /\ unit.last.kind = "write"
    /\ unit.prev.target = unit.last.target
    /\ unit.prev.after # <<>>

\* C19: select_dropdown_option clicks the first option, in document order,
\* whose text equals the requested text once both are trimmed and lowered,
\* and returns; when no option does, it clicks none and raises.
C19_SelectFirstMatch ==
    unit.last.kind = "select" =>
        LET c == unit.last
            Norm(s) == Lower(Strip(s))
            equal == {i \in 1..Len(c.options) : Norm(c.options[i]) = Norm(c.value)}
        IN  IF equal = {}
            THEN c.clicked = 0 /\ c.raised
            ELSE /\ c.clicked \in equal
                 /\ \A j \in equal : c.clicked <= j
                 /\ ~c.raised

\* Of two options that match (one padded and in upper case) the first, which
\* is the second option of the list, was clicked.
C19_Witness ==
    /\ unit.last.kind = "select"
    /\ unit.last.options = <<O_Filial, O_SedePadded, O_Sede>>
    /\ unit.last.clicked = 2

---------------------------------------------------------------------------
(* Requests handled at the same time, each by its own call of              *)
(* create_appointment_api.                                                 *)

MaxRequests == 2
Reqs == 1..MaxRequests

\* The calls the handler makes with its driver, in order (api.py 131-142).
AutomationCalls == <<"login", "open_page", "create_appointment">>

InitConc ==
    /\ entry = "server" /\ pc = "idle"
    /\ widget = "masked" /\ body = JsonNone
    /\ trace = <<>> /\ fields = EmptyFields /\ svc = 0 /\ dt = NoDate
    /\ exc = NoExc /\ exit = "none" /\ response = NoResponse
    /\ unit = NoUnit
    /\ \E valid \in [Reqs -> BOOLEAN] :
         conc = [pc |-> [r \in Reqs |-> "recv"], valid |-> valid,
                 driver |-> [r \in Reqs |-> 0], sessions |-> 0, log |-> {}]

\* Mutant: the driver is a module-level name, rebound by each create_driver().
DriverOf_Shared(r) == conc.sessions

\* `driver` is a local name of the handler: each call has its own.
DriverOf(r) == conc.driver[r]

Used(r, op) == [req |-> r, session |-> DriverOf(r), op |-> op]

OnlyConc == UNCHANGED <<unit, entry, widget, body, pc, trace, fields, svc, dt, exc,
                        exit, response>>

\* Lines 91-127: a request that fails validation is answered at once.
ReqValidate ==
    /\ \E r \in Reqs :
         /\ conc.pc[r] = "recv"
         /\ conc' = [conc EXCEPT !.pc[r] = IF conc.valid[r] THEN "create_driver"
                                           ELSE "done"]
    /\ OnlyConc

\* Line 129 and create_driver: webdriver.Chrome(options=options) starts a new
\* browser session and the handler binds it to its local `driver`; when it
\* raises there is no driver and the outer except answers.
ReqCreateDriver ==
    /\ \E r \in Reqs :
         /\ conc.pc[r] = "create_driver"
         /\ \/ conc' = [conc EXCEPT !.pc[r] = "login",
                                    !.sessions = conc.sessions + 1,
                                    !.driver[r] = conc.sessions + 1,
                                    !.log = conc.log \cup
                                        {[req |-> r, session |-> conc.sessions + 1,
                                          op |-> "create"]}]
            \/ conc' = [conc EXCEPT !.pc[r] = "done"]
    /\ OnlyConc

\* Lines 131-142: login, navigation and the form, each on the handler's
\* driver; an exception leaves the try through the finally.
ReqAutomation ==
    /\ \E r \in Reqs, k \in 1..Len(AutomationCalls) :
         /\ conc.pc[r] = AutomationCalls[k]
         /\ \E ok \in BOOLEAN :
              conc' = [conc EXCEPT
                         !.pc[r] = IF ok /\ k < Len(AutomationCalls)
                                   THEN AutomationCalls[k + 1] ELSE "finally",
                         !.log = conc.log \cup {Used(r, AutomationCalls[k])}]
    /\ OnlyConc

\* Lines 161-162: driver.quit() in the finally.
ReqFinally ==
    /\ \E r \in Reqs :
         /\ conc.pc[r] = "finally"
         /\ conc' = [conc EXCEPT !.pc[r] = "done",
                                 !.log = conc.log \cup {Used(r, "quit")}]
    /\ OnlyConc

NextConc == ReqValidate \/ ReqCreateDriver \/ ReqAutomation \/ ReqFinally

ConcSpec == InitConc /\ [][NextConc]_vars

\* C18: whatever the interleaving, a request that passed validation and went
\* past create_driver holds a session no other request holds; every operation
\* on a session, its release included, is made by the request that created
\* it; a request that ended after creating a session released it; a request
\* that failed validation touched no session.
C18_ExclusiveHandle ==
    /\ \A r \in Reqs :
         conc.pc[r] \in {"login", "open_page", "create_appointment", "finally"} =>
             /\ conc.valid[r]
             /\ [req |-> r, session |-> conc.driver[r], op |-> "create"] \in conc.log
    /\ \A r1, r2 \in Reqs :
         (r1 # r2 /\ conc.driver[r1] # 0) => conc.driver[r1] # conc.driver[r2]
    /\ \A e \in conc.log :
         /\ [req |-> e.req, session |-> e.session, op |-> "create"] \in conc.log
         /\ \A f \in conc.log : f.session = e.session => f.req = e.req
         /\ conc.valid[e.req]
    /\ \A r \in Reqs :
         (conc.pc[r] = "done" /\ conc.driver[r] # 0) =>
             [req |-> r, session |-> conc.driver[r], op |-> "quit"] \in conc.log

\* Two requests were in the form at the same time, each on its own session,
\* the one received first holding the session created second.
C18_Witness ==
    /\ \A r \in Reqs : conc.pc[r] = "create_appointment"
    /\ conc.driver[1] = 2 /\ conc.driver[2] = 1

---------------------------------------------------------------------------
(* The order of the write strategies.                                      *)

KsOps == {"ks_date", "ks_start", "ks_end"}
JsOps == {"js_date", "js_start", "js_end"}

\* C21 (as claimed): scripted value injection is tried before keystroke
\* simulation, so a keystroke write is preceded by a scripted write.
C21_ScriptedBeforeKeystroke ==
    \A i \in Events :
        trace[i].op \in KsOps => \E j \in 1..(i - 1) : trace[j].op \in JsOps

\* C21 (amended): the keystroke write comes first and the scripted write
\* second, only after a keystroke write that raised and directly after it; no
\* keystroke write follows a scripted one; save is reached by the keystroke
\* write that completed with no fallback, or by the fallback that completed.
C21_KeystrokeThenScripted ==
    /\ \A i \in Events :
         trace[i].op \in JsOps =>
             \E j \in 1..(i - 1) : trace[j].op \in KsOps /\ ~trace[j].ok
    /\ \A i, j \in Events :
         (i < j /\ trace[i].op \in JsOps) => trace[j].op \notin KsOps
    /\ \A i \in Events :
         (trace[i].op \in KsOps /\ ~trace[i].ok /\ i < Len(trace)) =>
             trace[i + 1].op = "js_date"
    /\ (Did("save_find") \/ Did("save_click")) =>
         \/ KeystrokesCompleted /\ ~FallbackAttempted
         \/ FallbackCompleted

\* The keystroke write raised at the end time, the fallback completed and
\* save was clicked.
C21_Witness ==
    /\ \E i \in Events : trace[i].op = "ks_end" /\ ~trace[i].ok
    /\ FallbackCompleted
    /\ Did("save_click")

---------------------------------------------------------------------------
(* The services loop.                                                      *)

\* The operations of the services loop, in the order they were made.
ServiceTrace == SelectSeq(trace, LAMBDA e : e.op \in ServiceOps)

\* C22: the operations of the services loop come in threes, the k-th three
\* for the k-th service of the request: autocomplete_select with its name,
\* the wait for the overlay (completed or timed out), the add button (waited
\* for, then clicked once); only the last of them can have failed, a timed
\* out wait for the overlay apart; when the date is parsed or a date/time
\* field is written there is one completed add click per requested service.
C22_ServiceSteps ==
    LET s == ServiceTrace
        requested == body.obj.services.items
    IN  /\ \A p \in 1..Len(s) :
             LET k == ((p - 1) \div 3) + 1
                 r == (p - 1) % 3
             IN  /\ k <= Len(requested)
                 /\ s[p].arg = k
                 /\ r = 0 => (s[p].op = "svc_autocomplete"
                                /\ s[p].text = Lit(requested[k]))
                 /\ r = 1 => s[p].op = "svc_wait_overlay"
                 /\ r = 2 => s[p].op \in {"svc_button_wait", "svc_add"}
                 /\ (~s[p].ok /\ p < Len(s)) => s[p].op = "svc_wait_overlay"
        /\ (pc = "ca_parse" \/ \E i \in Events : trace[i].op \in DateTimeWrites) =>
             /\ Len(s) = 3 * Len(requested)
             /\ \A k \in 1..Len(requested) : s[3 * k] = Ev("svc_add", k, TRUE, <<>>)

\* Two different services were added in request order, the wait for the
\* overlay of the first timed out, and the date/time step was reached.
C22_Witness ==
    /\ ValidShape
    /\ body.obj.services.items = <<"Corte de Cabelo", "Barba">>
    /\ Len(ServiceTrace) = 6
    /\ ServiceTrace[2] = Ev("svc_wait_overlay", 1, FALSE, <<>>)
    /\ \E i \in Events : trace[i].op \in DateTimeWrites

---------------------------------------------------------------------------
(* What capture_popup_content reports.                                     *)

\* The surfaces of the claim by priority: 1 modal container (the selectors
\* modal+show, dialog, alertdialog, swal), 2 toast (toast, notification),
\* 3 inline alert (alert, error, warning, message).
SurfaceRank(sel) ==
    CASE sel \in {1, 5, 6, 7} -> 1
      [] sel \in {8, 9} -> 2
      [] OTHER -> 3

\* An element that is visible and has text.
Qualifies(e) == ~e.stale /\ e.displayed /\ Strip(e.text) # <<>>

\* C23 (as claimed): an open alert is reported before any element; otherwise
\* the element reported is a visible one with text of the best surface in the
\* order modal container, toast, inline alert that has such an element; when
\* no element is visible with text, found is false.
C23_AlertModalToastInline ==
    unit.last.kind = "capture" =>
        LET c == unit.last
            pg == c.page
            q == {i \in 1..Len(pg.elems) : Qualifies(pg.elems[i])}
        IN  IF pg.alert.open
            THEN c.found /\ c.type = "browser_alert" /\ c.text = pg.alert.text
            ELSE IF q = {}
                 THEN ~c.found
                 ELSE /\ c.found
                      /\ \E i \in q :
                           /\ c.text = Strip(pg.elems[i].text)
                           /\ \A j \in q : SurfaceRank(pg.elems[i].sel)
                                             <= SurfaceRank(pg.elems[j].sel)

---------------------------------------------------------------------------
(* The intercepted add click.                                              *)

InterceptedAt(i) ==
    trace[i].op = "svc_add" /\ ~trace[i].ok /\ trace[i].text = Intercepted

\* C24: an intercepted click on the add button is followed by one capture of
\* the popup and then by nothing but the release of the driver: no further
\* service operation, no date/time write, no save; create_appointment has
\* raised, with a message that quotes the popup text when a popup was found
\* and with the interception error itself when none was, and that message is
\* the error of the response.
C24_InterceptedAddFails ==
    \A i \in Events :
        InterceptedAt(i) =>
            /\ i < Len(trace)
            /\ trace[i + 1].op = "capture" /\ trace[i + 1].arg = 0
            /\ \A j \in (i + 2)..Len(trace) : trace[j].op = "quit"
            /\ \A j \in Events : trace[j].op \notin DateTimeWrites \cup {"save_find", "save_click"}
            /\ \A j \in Events : trace[j].op = "svc_add" => trace[j].arg <= trace[i].arg
            /\ Failed /\ exc.raised
            /\ IF trace[i + 1].ok
               THEN Contains(exc.msg, trace[i + 1].text) /\ exc.msg # Intercepted
               ELSE exc.msg = Intercepted
            /\ pc = "done" => (Answered500 /\ response.body.error = exc.msg)

\* The add click of the first of two services was intercepted by a popup
\* whose text was read, and the request was answered.
C24_Witness ==
    /\ ValidShape /\ Len(services) = 2 /\ pc = "done"
    /\ \E i \in Events :
         InterceptedAt(i) /\ trace[i].arg = 1 /\ i < Len(trace) /\ trace[i + 1].ok

---------------------------------------------------------------------------
(* The scripted fallback.                                                  *)

JsOrder == <<"js_date", "js_start", "js_end">>

\* The value the fallback assigns to the n-th field.
JsValue(n) ==
    CASE n = 1 -> DateIso(dt)
      [] n = 2 -> body.obj.start_time
      [] n = 3 -> body.obj.end_time

\* C25: whichever keystroke write raised, the operations after it are the
\* scripted writes of the date (in ISO form), the start time and the end
\* time, in this order, each made when the one before completed; a page that
\* keeps assigned values then holds the three assigned values, the date
\* typed earlier replaced; a scripted write that raised is followed only by
\* the release of the driver, the run has failed and save was not looked for.
C25_FallbackRewritesAll ==
    /\ \A i \in Events :
         (trace[i].op \in KsOps /\ ~trace[i].ok) =>
             \A n \in 1..3 :
                 (i + n <= Len(trace) /\ \A m \in 1..(n - 1) : trace[i + m].ok) =>
                     /\ trace[i + n].op = JsOrder[n]
                     /\ trace[i + n].ok => trace[i + n].text = JsValue(n)
    /\ (FallbackCompleted /\ widget # "controlled") =>
         fields = [age_data |-> DateIso(dt), age_inicio |-> body.obj.start_time,
                   age_fim |-> body.obj.end_time]
    /\ \A i \in Events :
         (trace[i].op \in JsOps /\ ~trace[i].ok) =>
             /\ \A j \in (i + 1)..Len(trace) : trace[j].op = "quit"
             /\ Failed
             /\ ~Did("save_find") /\ ~Did("save_click")

\* The keystroke write raised at the end time, after the date and the start
\* time were typed, and the fallback wrote all three fields.
C25_Witness ==
    /\ \E i \in Events : trace[i].op = "ks_start" /\ trace[i].ok
    /\ \E i \in Events : trace[i].op = "ks_end" /\ ~trace[i].ok
    /\ FallbackCompleted
    /\ widget = "masked"

---------------------------------------------------------------------------
(* The response.                                                           *)

FieldMissing == body.isObject /\ \E f \in C4_Fields : f \notin DOMAIN body.obj

ServicesRejected ==
    /\ body.isObject /\ ~FieldMissing
    /\ \/ ~body.obj.services.isList
       \/ Len(body.obj.services.items) = 0

Completed(op) == \E i \in Events : trace[i].op = op /\ trace[i].ok

\* Status and success flag of the response, against what the request did.
ResponseAgrees ==
    /\ entry = "cli" => ~response.sent
    /\ entry = "api" => (response.sent <=> pc = "done")
    /\ response.sent =>
         /\ response.status \in {200, 400, 500}
         /\ response.body.success <=> response.status = 200
         /\ response.status = 200 =>
              /\ Completed("login") /\ Completed("open_page")
              /\ Confirmed /\ ~exc.raised
         /\ response.status = 400 <=> (FieldMissing \/ ServicesRejected)
         /\ response.status = 400 => trace = <<>>
         /\ response.status = 500 => Len(response.body.error) > 0

\* C26: a request is answered when its handler ends and not before, and a
\* response once sent is never changed or sent again; success is true exactly
\* with status 200, which needs login, navigation and create_appointment to
\* have returned; status 400 is given exactly for a missing field or a
\* rejected services value, and every other failure has status 500.
C26_OneResponse ==
    /\ []ResponseAgrees
    /\ [][response.sent => response' = response]_vars

\* A 200 was sent for a run that ended on the success text.
C26_Witness ==
    /\ response.sent /\ response.status = 200 /\ exit = "success_text"

============================================================================
